---- MODULE Spec2Model ----
(***************************************************************************)
(* tor-netdir: the PartialNetDir -> NetDir assembly state machine, the     *)
(* weight-function selection and the weighted relay selection of           *)
(* src/tor-netdir/src/lib.rs.                                               *)
(*                                                                         *)
(* An Option<T> is the set of its contents: None is {} and Some(x) is {x}. *)
(* A Relay / UncheckedRelay borrows a routerstatus of the consensus: it is *)
(* the position of that routerstatus in consensus.routers().               *)
(*                                                                         *)
(* tor-dirmgr: the decorrelated-jitter RetryDelay and RetryConfig of       *)
(* src/tor-dirmgr/src/retry.rs (specification SpecRetry) and the DocId /   *)
(* DocQuery batches of src/tor-dirmgr/src/docid.rs (SpecDocQuery).         *)
(* Each specification leaves the variables of the others at their unused   *)
(* value.                                                                  *)
(***************************************************************************)
EXTENDS Integers, Sequences, FiniteSets, TLC

\* Largest number of routerstatus entries of a consensus.
MaxRelays == 2
\* Largest bandwidth value of a RouterWeight.
MaxWeight == 1
\* Number of distinct microdescriptor bodies that carry the same digest.
MaxBody == 1

\* Width in bits of the machine word that stands for u32.
WordBits == 14
\* Number of next_delay calls of one series that are counted.
MaxCalls == 4
\* Largest number of keys pushed onto one DocQuery.
MaxPush == 3
\* Number of distinct keys of each kind of document.
MaxKey == 2

VARIABLES
    netdir,   \* the NetDir (inside the PartialNetDir until it is unwrapped)
    phase,    \* "PartialNetDir" or "NetDir": which type owns netdir
    last,     \* the last operation called and what it returned
    retry,    \* a RetryConfig, the RetryDelay in use and the last call on it
    docq      \* a DocQuery under construction and the last call on it

vars == <<netdir, phase, last, retry, docq>>

\* The value of a variable in a specification that does not use it.
Unused == [op |-> "unused"]

None == {}
Some(x) == {x}

\* The sum of f over S.
RECURSIVE Sum(_, _)
Sum(f, S) == IF S = {} THEN 0
             ELSE LET x == CHOOSE y \in S : TRUE IN f[x] + Sum(f, S \ {x})

----------------------------------------------------------------------------
(* The documents handed in by tor-netdoc.                                  *)

RouterWeight == [tag : {"Unmeasured", "Measured"}, val : 0..MaxWeight]

\* The routerstatus entries whose digest is one of 1..n.
MDConsensusRouterStatus(n) ==
    [md_digest : 1..n, weight : RouterWeight, ed25519_id_is_usable : BOOLEAN]

\* Digests are opaque, so a consensus is taken up to renaming of its digests:
\* the k-th distinct digest it lists, in order of first appearance, is k.
DigestsInOrder(c) ==
    \A i \in 1..Len(c) :
        \/ \E j \in 1..(i - 1) : c[j].md_digest = c[i].md_digest
        \/ c[i].md_digest = 1 + Cardinality({c[j].md_digest : j \in 1..(i - 1)})

\* Four relays of equal unmeasured weight, each with its own microdescriptor.
EqualWeightConsensus ==
    [i \in 1..4 |-> [md_digest |-> i,
                     weight |-> [tag |-> "Unmeasured", val |-> 10],
                     ed25519_id_is_usable |-> TRUE]]

\* MDDigest values; the largest one is never listed by a consensus.
MDDigest ==
    LET n == Len(EqualWeightConsensus)
    IN  1..((IF MaxRelays > n THEN MaxRelays ELSE n) + 1)

\* The microdescriptors handed to add_microdesc; digest 1 (the digest of the
\* first relay listed) comes with two bodies at least.
Microdesc ==
    [digest : MDDigest, body : 1..MaxBody] \cup {[digest |-> 1, body |-> 2]}

\* The consensuses handed to PartialNetDir::new.
MDConsensus ==
    UNION {{c \in [1..n -> MDConsensusRouterStatus(n)] : DigestsInOrder(c)} :
              n \in 0..MaxRelays}
      \cup {EqualWeightConsensus}

----------------------------------------------------------------------------
(* WeightFn                                                                *)

WeightFn == {"Uniform", "IncludeUnmeasured", "MeasuredOnly"}

WeightFn_apply_swapped(wf, w) ==
    CASE wf = "Uniform" -> 1
      [] wf = "IncludeUnmeasured" -> w.val
      [] wf = "MeasuredOnly" /\ w.tag = "Unmeasured" -> w.val
      [] wf = "MeasuredOnly" /\ w.tag = "Measured" -> 0

WeightFn_apply_unmeasured_counted(wf, w) ==
    CASE wf = "Uniform" -> 1
      [] wf = "IncludeUnmeasured" -> w.val
      [] wf = "MeasuredOnly" -> w.val

WeightFn_apply(wf, w) ==
    CASE wf = "Uniform" -> 1
      [] wf = "IncludeUnmeasured" /\ w.tag = "Unmeasured" -> w.val
      [] wf = "IncludeUnmeasured" /\ w.tag = "Measured" -> w.val
      [] wf = "MeasuredOnly" /\ w.tag = "Unmeasured" -> 0
      [] wf = "MeasuredOnly" /\ w.tag = "Measured" -> w.val

pick_weight_fn_measured_first(consensus) ==
    LET has_measured == \E i \in 1..Len(consensus) : consensus[i].weight.tag = "Measured"
        has_nonzero == \E i \in 1..Len(consensus) : consensus[i].weight.val # 0
    IN  IF has_measured THEN "MeasuredOnly"
        ELSE IF ~has_nonzero THEN "Uniform"
        ELSE "IncludeUnmeasured"

pick_weight_fn(consensus) ==
    LET has_measured == \E i \in 1..Len(consensus) : consensus[i].weight.tag = "Measured"
        has_nonzero == \E i \in 1..Len(consensus) : consensus[i].weight.val # 0
    IN  IF ~has_nonzero THEN "Uniform"
        ELSE IF ~has_measured THEN "IncludeUnmeasured"
        ELSE "MeasuredOnly"

----------------------------------------------------------------------------
(* NetDir and PartialNetDir                                                *)

MDEntry_default == [md |-> None]

\* The loop of PartialNetDir::new: one HashMap::insert per routerstatus; a
\* digest listed twice is inserted twice and keeps one entry.
RECURSIVE insert_all(_, _, _)
insert_all(mds, routers, i) ==
    IF i > Len(routers) THEN mds
    ELSE LET d == routers[i].md_digest
         IN  insert_all([k \in DOMAIN mds \cup {d} |->
                            IF k = d THEN MDEntry_default ELSE mds[k]],
                        routers, i + 1)

PartialNetDir_new_no_slots(consensus) ==
    [consensus |-> consensus, mds |-> <<>>, weight_fn |-> pick_weight_fn(consensus)]

PartialNetDir_new(consensus) ==
    [consensus |-> consensus,
     mds |-> insert_all(<<>>, consensus, 1),
     weight_fn |-> pick_weight_fn(consensus)]

\* UncheckedRelay {rs, md} for routerstatus number i.
relay_from_rs(nd, i) ==
    LET d == nd.consensus[i].md_digest
    IN  [rs |-> i,
         md |-> IF d \in DOMAIN nd.mds THEN nd.mds[d].md ELSE None]

all_relays(nd) == [i \in 1..Len(nd.consensus) |-> relay_from_rs(nd, i)]

is_usable_md_only(nd, r) == r.md # None

is_usable_ed_only(nd, r) == nd.consensus[r.rs].ed25519_id_is_usable

is_usable(nd, r) ==
    r.md # None /\ nd.consensus[r.rs].ed25519_id_is_usable

\* Option<Relay>: the routerstatus number, when the relay is usable.
into_relay(nd, r) == IF is_usable(nd, r) THEN Some(r.rs) ELSE None

\* self.md.unwrap() in into_relay panics when it is reached with md = None.
into_relay_panics(nd, r) == is_usable(nd, r) /\ r.md = None

\* filter_map over all_relays, in consensus order.
relays(nd) ==
    LET usable(i) == into_relay(nd, all_relays(nd)[i]) # None
    IN  SelectSeq([i \in 1..Len(nd.consensus) |-> i], usable)

Relay_weight_declared(nd, i, wf) == nd.consensus[i].weight.val

\* Relay::weight of the relay of routerstatus number i.
Relay_weight(nd, i, wf) == WeightFn_apply(wf, nd.consensus[i].weight)

\* The loop of have_enough_paths: <<total_bw, have_bw>> after relay i..end.
RECURSIVE bw_loop(_, _, _, _)
bw_loop(nd, i, total_bw, have_bw) ==
    IF i > Len(nd.consensus) THEN <<total_bw, have_bw>>
    ELSE LET r == all_relays(nd)[i]
             w == WeightFn_apply(nd.weight_fn, nd.consensus[r.rs].weight)
         IN  bw_loop(nd, i + 1, total_bw + w,
                     IF is_usable(nd, r) THEN have_bw + w ELSE have_bw)

have_enough_paths_swapped(nd) ==
    LET bw == bw_loop(nd, 1, 0, 0)
    IN  bw[1] > (bw[2] \div 2)

have_enough_paths_at_least_half(nd) ==
    LET bw == bw_loop(nd, 1, 0, 0)
    IN  bw[2] >= (bw[1] \div 2)

have_enough_paths(nd) ==
    LET bw == bw_loop(nd, 1, 0, 0)
    IN  bw[2] > (bw[1] \div 2)

\* Result<NetDir, PartialNetDir>
unwrap_if_sufficient_restart(nd) ==
    IF have_enough_paths(nd)
    THEN [ok |-> TRUE, netdir |-> nd]
    ELSE [ok |-> FALSE, netdir |-> PartialNetDir_new(nd.consensus)]

unwrap_if_sufficient(nd) ==
    IF have_enough_paths(nd)
    THEN [ok |-> TRUE, netdir |-> nd]
    ELSE [ok |-> FALSE, netdir |-> nd]

missing_microdescs_filled(nd) ==
    LET present(i) ==
            LET d == nd.consensus[i].md_digest
            IN  d \in DOMAIN nd.mds /\ nd.mds[d].md # None
        idx == SelectSeq([i \in 1..Len(nd.consensus) |-> i], present)
    IN  [k \in 1..Len(idx) |-> nd.consensus[idx[k]].md_digest]

missing_microdescs_by_slot(nd) ==
    LET S == {d \in DOMAIN nd.mds : nd.mds[d].md = None}
    IN  [k \in 1..Cardinality(S) |->
            CHOOSE d \in S : Cardinality({e \in S : e < d}) = k - 1]

\* In consensus order, one digest per routerstatus whose entry holds no md.
missing_microdescs(nd) ==
    LET missing(i) ==
            LET d == nd.consensus[i].md_digest
            IN  ~(d \in DOMAIN nd.mds /\ nd.mds[d].md # None)
        idx == SelectSeq([i \in 1..Len(nd.consensus) |-> i], missing)
    IN  [k \in 1..Len(idx) |-> nd.consensus[idx[k]].md_digest]

\* add_microdesc: the NetDir afterwards and the value returned.
add_microdesc_insert(nd, md) ==
    [netdir |-> [nd EXCEPT !.mds = [k \in DOMAIN nd.mds \cup {md.digest} |->
                                       IF k = md.digest THEN [md |-> Some(md)]
                                       ELSE nd.mds[k]]],
     ret |-> md.digest \in DOMAIN nd.mds]

add_microdesc_upsert(nd, md) ==
    [netdir |-> [nd EXCEPT !.mds = [k \in DOMAIN nd.mds \cup {md.digest} |->
                                       IF k = md.digest THEN [md |-> Some(md)]
                                       ELSE nd.mds[k]]],
     ret |-> TRUE]

add_microdesc_repick(nd, md) ==
    IF md.digest \in DOMAIN nd.mds
    THEN LET mds == [nd.mds EXCEPT ![md.digest] = [md |-> Some(md)]]
             have(rs) == mds[rs.md_digest].md # None
         IN  [netdir |-> [nd EXCEPT !.mds = mds,
                                    !.weight_fn = pick_weight_fn(SelectSeq(nd.consensus, have))],
              ret |-> TRUE]
    ELSE [netdir |-> nd, ret |-> FALSE]

add_microdesc_report_only(nd, md) ==
    [netdir |-> nd, ret |-> md.digest \in DOMAIN nd.mds]

add_microdesc_keep_first(nd, md) ==
    IF md.digest \in DOMAIN nd.mds
    THEN [netdir |-> IF nd.mds[md.digest].md # None THEN nd
                     ELSE [nd EXCEPT !.mds[md.digest] = [md |-> Some(md)]],
          ret |-> TRUE]
    ELSE [netdir |-> nd, ret |-> FALSE]

add_microdesc_clear_on_conflict(nd, md) ==
    IF md.digest \in DOMAIN nd.mds
    THEN [netdir |-> IF nd.mds[md.digest].md \notin {None, Some(md)}
                     THEN [nd EXCEPT !.mds[md.digest] = [md |-> None]]
                     ELSE [nd EXCEPT !.mds[md.digest] = [md |-> Some(md)]],
          ret |-> TRUE]
    ELSE [netdir |-> nd, ret |-> FALSE]

add_microdesc(nd, md) ==
    IF md.digest \in DOMAIN nd.mds
    THEN [netdir |-> [nd EXCEPT !.mds[md.digest] = [md |-> Some(md)]],
          ret |-> TRUE]
    ELSE [netdir |-> nd, ret |-> FALSE]

----------------------------------------------------------------------------
(* pick_relay                                                              *)

\* The reweight closures handed to pick_relay: a relay in `drop` gets weight
\* 0, any other relay keeps its weight ("same") or gets weight 1 ("one");
\* one more closure gives every relay its position in the consensus as
\* weight ("rank").
Reweight ==
    [kind : {"same", "one"}, drop : SUBSET (1..MaxRelays)]
        \cup {[kind |-> "rank", drop |-> {}]}

reweight(rw, r, w) ==
    IF r \in rw.drop THEN 0
    ELSE IF rw.kind = "same" THEN w
    ELSE IF rw.kind = "one" THEN 1
    ELSE r

\* pick::pick_weighted: one pass over the items with a running weight sum;
\* item i replaces the result when the draw x from [0, weight_so_far) falls
\* below its weight. The value is the set of results over all draws.
RECURSIVE pick_weighted_loop(_, _, _, _, _)
pick_weighted_loop(items, weightfn, i, result, weight_so_far) ==
    IF i > Len(items) THEN {result}
    ELSE LET w == weightfn[i]
         IN  IF w = 0
             THEN pick_weighted_loop(items, weightfn, i + 1, result, weight_so_far)
             ELSE LET results == {IF x < w THEN Some(items[i]) ELSE result :
                                     x \in 0..(weight_so_far + w - 1)}
                  IN  UNION {pick_weighted_loop(items, weightfn, i + 1, r,
                                                weight_so_far + w) : r \in results}

pick_weighted(items, weightfn) == pick_weighted_loop(items, weightfn, 1, None, 0)

\* The same pass counted: `dist` maps each result so far to the number of
\* sequences of draws that lead to it, every draw of gen_range(0..n) having
\* n equally likely values.
RECURSIVE pick_weighted_count_loop(_, _, _, _, _)
pick_weighted_count_loop(items, weightfn, i, dist, weight_so_far) ==
    IF i > Len(items) THEN dist
    ELSE LET w == weightfn[i]
             all == Sum(dist, DOMAIN dist)
         IN  IF w = 0
             THEN pick_weighted_count_loop(items, weightfn, i + 1, dist, weight_so_far)
             ELSE pick_weighted_count_loop(
                      items, weightfn, i + 1,
                      [r \in DOMAIN dist |->
                          IF r = Some(items[i]) THEN w * all ELSE weight_so_far * dist[r]],
                      weight_so_far + w)

pick_weighted_count(items, weightfn) ==
    pick_weighted_count_loop(
        items, weightfn, 1,
        [r \in {None} \cup {Some(items[k]) : k \in 1..Len(items)} |->
            IF r = None THEN 1 ELSE 0],
        0)

pick_relay_count_base_weight(nd, rw) ==
    LET items == relays(nd)
    IN  pick_weighted_count(items,
                            [k \in 1..Len(items) |->
                                Relay_weight(nd, items[k], nd.weight_fn)])

\* For each value pick_relay can return, the number of equally likely
\* outcomes of rng that return it.
pick_relay_count(nd, rw) ==
    LET items == relays(nd)
    IN  pick_weighted_count(items,
                            [k \in 1..Len(items) |->
                                reweight(rw, items[k], Relay_weight(nd, items[k], nd.weight_fn))])

pick_relay_all_relays(nd, rw) ==
    LET items == [i \in 1..Len(nd.consensus) |-> i]
    IN  pick_weighted(items,
                      [k \in 1..Len(items) |->
                          reweight(rw, items[k], Relay_weight(nd, items[k], nd.weight_fn))])

\* The set of values pick_relay can return, over all outcomes of rng.
pick_relay(nd, rw) ==
    LET items == relays(nd)
    IN  pick_weighted(items,
                      [k \in 1..Len(items) |->
                          reweight(rw, items[k], Relay_weight(nd, items[k], nd.weight_fn))])

----------------------------------------------------------------------------
(* The state machine: the calls a bootstrap and its path builders make.    *)

\* What `last` records: the operation, whether it returned true / Ok / Some,
\* and the relay it returned (pick_relay).
Called(op, ok, relay) == [op |-> op, ok |-> ok, relay |-> relay]

Init ==
    \E consensus \in MDConsensus :
        /\ netdir = PartialNetDir_new(consensus)
        /\ phase = "PartialNetDir"
        /\ last = Called("new", TRUE, None)
        /\ retry = Unused
        /\ docq = Unused

\* MDReceiver::add_microdesc, on the PartialNetDir or on the NetDir.
Call_add_microdesc ==
    \E md \in Microdesc :
        LET r == add_microdesc(netdir, md)
        IN  /\ netdir' = r.netdir
            /\ last' = Called("add_microdesc", r.ret, None)
            /\ UNCHANGED <<phase, retry, docq>>

Call_unwrap_if_sufficient ==
    /\ phase = "PartialNetDir"
    /\ LET r == unwrap_if_sufficient(netdir)
       IN  /\ netdir' = r.netdir
           /\ phase' = IF r.ok THEN "NetDir" ELSE "PartialNetDir"
           /\ last' = Called("unwrap_if_sufficient", r.ok, None)
           /\ UNCHANGED <<retry, docq>>

Call_pick_relay ==
    /\ phase = "NetDir"
    /\ \E rw \in Reweight :
           \E picked \in pick_relay(netdir, rw) :
               /\ last' = Called("pick_relay", picked # None, picked)
               /\ UNCHANGED <<netdir, phase, retry, docq>>

\* MDReceiver::missing_microdescs, on the PartialNetDir or on the NetDir: it
\* borrows the directory and returns an iterator.
Call_missing_microdescs ==
    /\ last' = Called("missing_microdescs", TRUE, None)
    /\ UNCHANGED <<netdir, phase, retry, docq>>

Call_relays_taking ==
    /\ phase = "NetDir"
    /\ netdir' = [netdir EXCEPT !.mds = [d \in DOMAIN netdir.mds |-> MDEntry_default]]
    /\ last' = Called("relays", TRUE, None)
    /\ UNCHANGED <<phase, retry, docq>>

\* NetDir::relays and the predicates of the Relays it yields (same_relay,
\* supports_exit_port, is_dir_cache): all borrow the NetDir.
Call_relays ==
    /\ phase = "NetDir"
    /\ last' = Called("relays", TRUE, None)
    /\ UNCHANGED <<netdir, phase, retry, docq>>

Next ==
    \/ Call_add_microdesc
    \/ Call_unwrap_if_sufficient
    \/ Call_pick_relay
    \/ Call_missing_microdescs
    \/ Call_relays

Spec == Init /\ [][Next]_vars

\* A bootstrap's download step: add_microdesc with a descriptor whose digest
\* missing_microdescs() yields at the time of the call.
Call_add_missing_microdesc ==
    \E md \in Microdesc :
        /\ \E k \in DOMAIN missing_microdescs(netdir) :
               missing_microdescs(netdir)[k] = md.digest
        /\ LET r == add_microdesc(netdir, md)
           IN  /\ netdir' = r.netdir
               /\ last' = Called("add_microdesc", r.ret, None)
               /\ UNCHANGED <<phase, retry, docq>>

\* The calls of a bootstrap: it asks what is missing, adds a descriptor for
\* a missing digest, and tries to unwrap.
NextBootstrap ==
    \/ Call_missing_microdescs
    \/ Call_add_missing_microdesc
    \/ Call_unwrap_if_sufficient

\* A bootstrap that keeps adding a descriptor for some missing digest as
\* long as there is one.
SpecBootstrap ==
    Init /\ [][NextBootstrap]_vars /\ WF_vars(Call_add_missing_microdesc)

-----------------------------------------------------------------------------
(* tor-dirmgr/src/retry.rs: RetryDelay                                     *)

\* std::u32::MAX for a word of WordBits bits.
U32_MAX == 2^WordBits - 1

MIN_LOW_BOUND == 1000
MAX_LOW_BOUND == U32_MAX - 1
MAX_DELAY_MULT == 3

Min(a, b) == IF a < b THEN a ELSE b
Max(a, b) == IF a > b THEN a ELSE b

\* A std::time::Duration: its whole milliseconds and whether a nonzero
\* part of a millisecond follows them.
Duration_from_millis(ms) == [ms |-> ms, sub |-> 0]
as_millis(d) == d.ms

\* `x as u32`: the low word of x.
as_u32(x) == x % (U32_MAX + 1)

\* u32 + u32 as the release build computes it; the debug build aborts where
\* this wraps.
u32_add(a, b) == (a + b) % (U32_MAX + 1)

u32_wrapping_mul(a, b) == (a * b) % (U32_MAX + 1)

u32_saturating_mul(a, b) == IF a * b > U32_MAX THEN U32_MAX ELSE a * b

\* The base delays handed to from_msec.
BaseDelayMsec == {0, 50, 999, 1000, 1001, 2000, U32_MAX - 1, U32_MAX}

\* The durations handed to from_duration and RetryConfig::new.
BaseDelay ==
    [ms : {0, 999, 1000, 1500, 2000, U32_MAX - 1, U32_MAX, U32_MAX + 1}, sub : {0, 1}]

\* The attempt counts handed to RetryConfig::new.
Attempts == {0, 1, 2, 3, U32_MAX}

from_msec_uncapped(base_delay_msec) ==
    [last_delay_ms |-> 0, low_bound_ms |-> Max(MIN_LOW_BOUND, base_delay_msec)]

from_msec_last_is_floor(base_delay_msec) ==
    LET low_bound_ms == Min(MAX_LOW_BOUND, Max(MIN_LOW_BOUND, base_delay_msec))
    IN  [last_delay_ms |-> low_bound_ms, low_bound_ms |-> low_bound_ms]

from_msec(base_delay_msec) ==
    LET low_bound_ms == Max(MIN_LOW_BOUND, base_delay_msec)
    IN  [last_delay_ms |-> 0, low_bound_ms |-> Min(MAX_LOW_BOUND, low_bound_ms)]

from_duration_truncating(d) ==
    from_msec(Min(as_u32(as_millis(d)), MAX_LOW_BOUND))

from_duration(d) ==
    LET msec == as_millis(d)
    IN  from_msec(as_u32(Min(msec, MAX_LOW_BOUND)))

delay_bounds_wrapping(rd) ==
    LET low == rd.low_bound_ms
    IN  <<low, Max(u32_add(low, 1), u32_wrapping_mul(rd.last_delay_ms, MAX_DELAY_MULT))>>

delay_bounds(rd) ==
    LET low == rd.low_bound_ms
        high == Max(u32_add(low, 1), u32_saturating_mul(rd.last_delay_ms, MAX_DELAY_MULT))
    IN  <<low, high>>

\* The outcomes of rng.gen_range(low..high) that are followed: both ends
\* of the range, the value after the low end, the middle, and the delay
\* 1500 of the unit tests.
gen_range(low, high) ==
    {x \in {low, low + 1, (low + high) \div 2, 1500, high - 1} : low <= x /\ x < high}

\* next_delay_msec returns the value drawn and the RetryDelay it leaves, or
\* panics when the assertion fails.
next_delay_msec_inclusive(rd) ==
    LET b == delay_bounds(rd)
    IN  IF ~(b[1] < b[2])
        THEN {[rd |-> rd, val |-> 0, panic |-> TRUE]}
        ELSE {[rd |-> [rd EXCEPT !.last_delay_ms = val], val |-> val, panic |-> FALSE] :
                  val \in gen_range(b[1], b[2] + 1)}

next_delay_msec(rd) ==
    LET low == delay_bounds(rd)[1]
        high == delay_bounds(rd)[2]
    IN  IF ~(low < high)
        THEN {[rd |-> rd, val |-> 0, panic |-> TRUE]}
        ELSE {[rd |-> [rd EXCEPT !.last_delay_ms = val], val |-> val, panic |-> FALSE] :
                  val \in gen_range(low, high)}

next_delay(rd) ==
    {[rd |-> r.rd, val |-> Duration_from_millis(r.val), panic |-> r.panic] :
         r \in next_delay_msec(rd)}

-----------------------------------------------------------------------------
(* tor-dirmgr/src/retry.rs: RetryConfig                                    *)

RetryConfig_new_default_three(n, initial_delay) ==
    [num |-> IF n = 0 THEN 3 ELSE n, initial_delay |-> initial_delay]

RetryConfig_new(n, initial_delay) ==
    [num |-> IF n # 0 THEN n ELSE 1, initial_delay |-> initial_delay]

\* The values the iterator returned by attempts() yields, in order.
attempts_inclusive(cfg) == [i \in 1..(cfg.num + 1) |-> i - 1]

attempts(cfg) == [i \in 1..cfg.num |-> i - 1]

n_attempts(cfg) == cfg.num

schedule(cfg) == from_duration(cfg.initial_delay)

-----------------------------------------------------------------------------
(* The retry state machine: a RetryConfig is built, its schedule is taken, *)
(* and the RetryDelay in use is asked for delays or replaced by a new one. *)

\* `calls` counts the next_delay calls made on the RetryDelay in use, up to
\* MaxCalls (MaxCalls stands for "MaxCalls or more").
RetryCalled(cfg, n, rd, seed, calls, op, arg, ret, panicked) ==
    [cfg |-> cfg, attempts |-> n, rd |-> rd, seed |-> seed, calls |-> calls,
     op |-> op, arg |-> arg, ret |-> ret, panicked |-> panicked]

InitRetry ==
    \E n \in Attempts : \E initial_delay \in BaseDelay :
        LET cfg == RetryConfig_new(n, initial_delay)
        IN  /\ retry = RetryCalled(cfg, n, schedule(cfg), "schedule", 0,
                                   "schedule", None, None, FALSE)
            /\ netdir = Unused /\ phase = "unused" /\ last = Unused /\ docq = Unused

Call_schedule ==
    /\ ~retry.panicked
    /\ retry' = [retry EXCEPT !.rd = schedule(retry.cfg), !.seed = "schedule", !.calls = 0,
                              !.op = "schedule", !.arg = None, !.ret = None]
    /\ UNCHANGED <<netdir, phase, last, docq>>

Call_from_msec ==
    /\ ~retry.panicked
    /\ \E b \in BaseDelayMsec :
           retry' = [retry EXCEPT !.rd = from_msec(b), !.seed = "from_msec", !.calls = 0,
                                  !.op = "from_msec",
                                  !.arg = Some(Duration_from_millis(b)), !.ret = None]
    /\ UNCHANGED <<netdir, phase, last, docq>>

Call_from_duration ==
    /\ ~retry.panicked
    /\ \E d \in BaseDelay :
           retry' = [retry EXCEPT !.rd = from_duration(d), !.seed = "from_duration", !.calls = 0,
                                  !.op = "from_duration", !.arg = Some(d), !.ret = None]
    /\ UNCHANGED <<netdir, phase, last, docq>>

Call_next_delay ==
    /\ ~retry.panicked
    /\ \E r \in next_delay(retry.rd) :
           retry' = [retry EXCEPT !.rd = r.rd, !.op = "next_delay", !.arg = None,
                                  !.calls = Min(retry.calls + 1, MaxCalls),
                                  !.ret = IF r.panic THEN None ELSE Some(r.val),
                                  !.panicked = r.panic]
    /\ UNCHANGED <<netdir, phase, last, docq>>

Call_attempts ==
    /\ ~retry.panicked
    /\ retry' = [retry EXCEPT !.op = "attempts", !.arg = None, !.ret = None]
    /\ UNCHANGED <<netdir, phase, last, docq>>

NextRetry ==
    \/ Call_schedule
    \/ Call_attempts
    \/ Call_from_msec
    \/ Call_from_duration
    \/ Call_next_delay

SpecRetry == InitRetry /\ [][NextRetry]_vars

-----------------------------------------------------------------------------
(* tor-dirmgr/src/docid.rs: DocId and DocQuery                             *)

ConsensusFlavor == {"Microdesc", "Ns"}
CacheUsage == {"CacheOnly", "CacheOkay", "MustDownload"}

\* The type of the key a DocId of each keyed kind carries.
KeyType == [AuthCert |-> "AuthCertKeyIds", Microdesc |-> "MdDigest",
            Routerdesc |-> "RdDigest"]
KeyedKind == DOMAIN KeyType

\* The fields a variant does not have.
NoKey == [type |-> "none", v |-> 0]
NoFlavor == "none"
NoCacheUsage == "none"

DocId ==
    {[kind |-> "LatestConsensus", flavor |-> f, cache_usage |-> c, id |-> NoKey] :
         f \in ConsensusFlavor, c \in CacheUsage}
    \cup {[kind |-> k, flavor |-> NoFlavor, cache_usage |-> NoCacheUsage,
           id |-> [type |-> KeyType[k], v |-> n]] : k \in KeyedKind, n \in 1..MaxKey}

\* A DocQuery: its variant, the fields of LatestConsensus, the Vec of the
\* keyed variants.
DocQuery(kind, flavor, cache_usage, ids) ==
    [kind |-> kind, flavor |-> flavor, cache_usage |-> cache_usage, ids |-> ids]

empty_from_docid_seeded(id) ==
    IF id.kind = "LatestConsensus"
    THEN DocQuery("LatestConsensus", id.flavor, id.cache_usage, <<>>)
    ELSE DocQuery(id.kind, NoFlavor, NoCacheUsage, <<id.id>>)

empty_from_docid(id) ==
    IF id.kind = "LatestConsensus"
    THEN DocQuery("LatestConsensus", id.flavor, id.cache_usage, <<>>)
    ELSE DocQuery(id.kind, NoFlavor, NoCacheUsage, <<>>)

\* push returns the query it leaves and whether it panicked.
push_dedup(q, id) ==
    IF q.kind = id.kind
    THEN [query |-> IF q.kind = "LatestConsensus"
                       \/ \E i \in 1..Len(q.ids) : q.ids[i] = id.id
                    THEN q ELSE [q EXCEPT !.ids = Append(q.ids, id.id)],
          panic |-> FALSE]
    ELSE [query |-> q, panic |-> TRUE]

push_ignore_mismatch(q, id) ==
    IF q.kind \in KeyedKind /\ id.kind = q.kind
    THEN [query |-> [q EXCEPT !.ids = Append(q.ids, id.id)], panic |-> FALSE]
    ELSE [query |-> q, panic |-> FALSE]

push(q, id) ==
    CASE q.kind = "LatestConsensus" /\ id.kind = "LatestConsensus" ->
             [query |-> q, panic |-> FALSE]
      [] q.kind = "AuthCert" /\ id.kind = "AuthCert" ->
             [query |-> [q EXCEPT !.ids = Append(q.ids, id.id)], panic |-> FALSE]
      [] q.kind = "Microdesc" /\ id.kind = "Microdesc" ->
             [query |-> [q EXCEPT !.ids = Append(q.ids, id.id)], panic |-> FALSE]
      [] q.kind = "Routerdesc" /\ id.kind = "Routerdesc" ->
             [query |-> [q EXCEPT !.ids = Append(q.ids, id.id)], panic |-> FALSE]
      [] OTHER -> [query |-> q, panic |-> TRUE]

DocQuery_from(d) ==
    LET result == empty_from_docid(d)
    IN  push(result, d)

-----------------------------------------------------------------------------
(* The DocQuery state machine: a query is built from a DocId and DocIds    *)
(* are pushed onto it, until a push panics.                                *)

\* `first` is the DocId the query was built from and `pushed` the DocIds
\* pushed onto it since, in order, by the pushes that returned.
DocCalled(query, first, pushed, op, arg, panicked) ==
    [query |-> query, first |-> first, pushed |-> pushed,
     op |-> op, arg |-> arg, panicked |-> panicked]

InitDocQuery ==
    \E id \in DocId :
        /\ docq = DocCalled(empty_from_docid(id), id, <<>>, "empty_from_docid", id, FALSE)
        /\ netdir = Unused /\ phase = "unused" /\ last = Unused /\ retry = Unused

Call_empty_from_docid ==
    /\ ~docq.panicked
    /\ \E id \in DocId :
           docq' = DocCalled(empty_from_docid(id), id, <<>>, "empty_from_docid", id, FALSE)
    /\ UNCHANGED <<netdir, phase, last, retry>>

Call_push ==
    /\ ~docq.panicked
    /\ Len(docq.pushed) < MaxPush
    /\ \E id \in DocId :
           LET r == push(docq.query, id)
           IN  docq' = DocCalled(r.query, docq.first,
                                 IF r.panic THEN docq.pushed ELSE Append(docq.pushed, id),
                                 "push", id, r.panic)
    /\ UNCHANGED <<netdir, phase, last, retry>>

Call_from ==
    /\ ~docq.panicked
    /\ \E id \in DocId :
           LET r == DocQuery_from(id)
           IN  docq' = DocCalled(r.query, id, IF r.panic THEN <<>> ELSE <<id>>,
                                 "from", id, r.panic)
    /\ UNCHANGED <<netdir, phase, last, retry>>

NextDocQuery ==
    \/ Call_empty_from_docid
    \/ Call_push
    \/ Call_from

SpecDocQuery == InitDocQuery /\ [][NextDocQuery]_vars

----------------------------------------------------------------------------
(* The properties, stated without the operators above they are about.      *)

Range(f) == {f[x] : x \in DOMAIN f}

Listed(nd) == 1..Len(nd.consensus)
Referenced(nd) == {nd.consensus[i].md_digest : i \in Listed(nd)}
Filled(nd) == {d \in DOMAIN nd.mds : nd.mds[d].md # None}

\* The relays whose slot is filled and whose ed25519 identity is acceptable.
Usable(nd) ==
    {i \in Listed(nd) : /\ nd.consensus[i].md_digest \in Filled(nd)
                        /\ nd.consensus[i].ed25519_id_is_usable}

\* The weight the policy wf gives to the declared weight w.
PolicyWeight(wf, w) ==
    IF wf = "Uniform" THEN 1
    ELSE IF wf = "IncludeUnmeasured" \/ w.tag = "Measured" THEN w.val
    ELSE 0

BaseWeight(nd) == [i \in Listed(nd) |-> PolicyWeight(nd.weight_fn, nd.consensus[i].weight)]

FinalWeight(nd, rw) == [i \in Listed(nd) |-> reweight(rw, i, BaseWeight(nd)[i])]

\* C1: add_microdesc(md) returns true exactly when the slot map has an entry
\* for md's digest; when it returns true the digest is no longer yielded by
\* missing_microdescs(), and when it returns false the consensus, the slot
\* map and the weight policy are as before the call.
C1_AddMicrodescContract ==
    \A md \in Microdesc :
        LET r == add_microdesc(netdir, md)
        IN  /\ r.ret = (md.digest \in DOMAIN netdir.mds)
            /\ r.ret => md.digest \notin Range(missing_microdescs(r.netdir))
            /\ ~r.ret => r.netdir = netdir

\* An add_microdesc has just returned false on a view that already holds a
\* microdescriptor.
C1_Witness ==
    /\ last.op = "add_microdesc" /\ ~last.ok
    /\ Filled(netdir) # {}

\* C2: right after PartialNetDir::new, for every consensus (one that lists a
\* digest twice included), missing_microdescs() yields every digest a relay
\* lists, every slot is empty, and add_microdesc returns false for every
\* digest the consensus does not list.
C2_AfterNew ==
    last.op = "new" =>
        /\ Range(missing_microdescs(netdir)) = Referenced(netdir)
        /\ \A d \in DOMAIN netdir.mds : netdir.mds[d].md = None
        /\ \A md \in Microdesc :
               md.digest \notin Referenced(netdir) => ~add_microdesc(netdir, md).ret

\* A fresh PartialNetDir whose consensus lists the same digest twice.
C2_Witness ==
    /\ last.op = "new"
    /\ \E i, j \in Listed(netdir) :
           i # j /\ netdir.consensus[i].md_digest = netdir.consensus[j].md_digest

\* C3: unwrap_if_sufficient returns the NetDir exactly when the policy
\* weight of the usable relays strictly exceeds half of the policy weight of
\* all listed relays; usable weight equal to half of the total (2 of 4
\* relays of equal weight) does not promote, 3 of 4 does.
C3_SufficientIffMoreThanHalf ==
    phase = "PartialNetDir" =>
        /\ unwrap_if_sufficient(netdir).ok
               <=> 2 * Sum(BaseWeight(netdir), Usable(netdir))
                       > Sum(BaseWeight(netdir), Listed(netdir))
        /\ netdir.consensus = EqualWeightConsensus =>
               /\ Cardinality(Filled(netdir)) = 2 => ~unwrap_if_sufficient(netdir).ok
               /\ Cardinality(Filled(netdir)) = 3 => unwrap_if_sufficient(netdir).ok

\* unwrap_if_sufficient has just failed with 2 of the 4 relays of equal
\* weight usable: exactly half of the total weight.
C3_Witness ==
    /\ last.op = "unwrap_if_sufficient" /\ ~last.ok
    /\ netdir.consensus = EqualWeightConsensus
    /\ Cardinality(Usable(netdir)) = 2
    /\ 2 * Sum(BaseWeight(netdir), Usable(netdir)) = Sum(BaseWeight(netdir), Listed(netdir))

\* C4: a failed unwrap_if_sufficient hands back the PartialNetDir with the
\* same consensus, slot map and weight policy: nothing added before is lost.
C4_FailedUnwrapKeepsState ==
    [][(last'.op = "unwrap_if_sufficient" /\ ~last'.ok)
          => (netdir' = netdir /\ phase' = "PartialNetDir")]_vars

\* unwrap_if_sufficient has just failed on a view that holds a
\* microdescriptor and still misses one.
C4_Witness ==
    /\ last.op = "unwrap_if_sufficient" /\ ~last.ok
    /\ Filled(netdir) # {}
    /\ Filled(netdir) # DOMAIN netdir.mds

AllAdded(nd) == Referenced(nd) \subseteq Filled(nd)

\* C5 as stated: once a microdescriptor has been added for every digest the
\* consensus lists, missing_microdescs() is empty and unwrap_if_sufficient
\* succeeds.
C5_Original ==
    (last.op = "add_microdesc" /\ last.ok /\ phase = "PartialNetDir" /\ AllAdded(netdir))
        => (missing_microdescs(netdir) = <<>> /\ unwrap_if_sufficient(netdir).ok)

\* C5 amended: once a microdescriptor has been added for every digest the
\* consensus lists, missing_microdescs() is empty, and unwrap_if_sufficient
\* succeeds exactly when the relays whose ed25519 identity is acceptable
\* carry more than half of the total policy weight.
C5_AllAdded ==
    (phase = "PartialNetDir" /\ AllAdded(netdir)) =>
        /\ missing_microdescs(netdir) = <<>>
        /\ unwrap_if_sufficient(netdir).ok
               <=> 2 * Sum(BaseWeight(netdir),
                           {i \in Listed(netdir) : netdir.consensus[i].ed25519_id_is_usable})
                       > Sum(BaseWeight(netdir), Listed(netdir))

\* The last missing microdescriptor has just been added and the view, every
\* identity acceptable and the total weight nonzero, can be unwrapped.
C5_Witness ==
    /\ last.op = "add_microdesc" /\ last.ok /\ phase = "PartialNetDir"
    /\ Len(netdir.consensus) = MaxRelays
    /\ AllAdded(netdir)
    /\ \A i \in Listed(netdir) : netdir.consensus[i].ed25519_id_is_usable
    /\ unwrap_if_sufficient(netdir).ok

HasNonzero(nd) == \E i \in Listed(nd) : nd.consensus[i].weight.val # 0
HasMeasured(nd) == \E i \in Listed(nd) : nd.consensus[i].weight.tag = "Measured"

\* C6 as stated: uniform when every relay has zero weight, include-unmeasured
\* when some weight is nonzero and none is measured, measured-only when the
\* consensus has at least one measured weight.
C6_Original ==
    /\ ~HasNonzero(netdir) => netdir.weight_fn = "Uniform"
    /\ (HasNonzero(netdir) /\ ~HasMeasured(netdir)) => netdir.weight_fn = "IncludeUnmeasured"
    /\ HasMeasured(netdir) => netdir.weight_fn = "MeasuredOnly"

\* C6 amended: uniform when every relay has zero weight, include-unmeasured
\* when some weight is nonzero and none is measured, measured-only when some
\* weight is nonzero and at least one is measured.
C6_WeightPolicy ==
    /\ ~HasNonzero(netdir) => netdir.weight_fn = "Uniform"
    /\ (HasNonzero(netdir) /\ ~HasMeasured(netdir)) => netdir.weight_fn = "IncludeUnmeasured"
    /\ (HasNonzero(netdir) /\ HasMeasured(netdir)) => netdir.weight_fn = "MeasuredOnly"

\* A fresh view whose consensus has measured weights, all of them zero.
C6_Witness ==
    /\ last.op = "new"
    /\ HasMeasured(netdir) /\ ~HasNonzero(netdir)
    /\ netdir.weight_fn = "Uniform"

\* C7: the base weight of a relay is 1 under uniform, the declared value
\* under include-unmeasured whatever its tag, and under measured-only the
\* declared value if it is tagged measured and 0 if it is tagged unmeasured.
C7_BaseWeight ==
    \A i \in Listed(netdir) :
        LET w == netdir.consensus[i].weight
        IN  /\ Relay_weight(netdir, i, "Uniform") = 1
            /\ Relay_weight(netdir, i, "IncludeUnmeasured") = w.val
            /\ Relay_weight(netdir, i, "MeasuredOnly") = (IF w.tag = "Measured" THEN w.val ELSE 0)
            /\ Relay_weight(netdir, i, netdir.weight_fn) = BaseWeight(netdir)[i]

\* pick_relay has just returned a relay of a measured-only NetDir that also
\* has a usable relay with a nonzero unmeasured weight.
C7_Witness ==
    /\ last.op = "pick_relay" /\ last.ok
    /\ netdir.weight_fn = "MeasuredOnly"
    /\ \E i \in Usable(netdir) :
           /\ netdir.consensus[i].weight.tag = "Unmeasured"
           /\ netdir.consensus[i].weight.val > 0

\* C8: for every reweight function and every outcome of the random source,
\* pick_relay returns None exactly when no usable relay has a nonzero final
\* weight; a relay with an empty slot or an unacceptable identity does not
\* count, whatever its weight. (Checked on every NetDir pick_relay is
\* called on.)
C8_NoneIffNoCandidate ==
    last.op = "pick_relay" =>
        \A rw \in Reweight :
            IF \E i \in Usable(netdir) : FinalWeight(netdir, rw)[i] > 0
            THEN None \notin pick_relay(netdir, rw)
            ELSE pick_relay(netdir, rw) = {None}

\* pick_relay has just returned None on a NetDir that lists a relay with a
\* nonzero declared weight that is not usable.
C8_Witness ==
    /\ last.op = "pick_relay" /\ ~last.ok
    /\ \E i \in Listed(netdir) \ Usable(netdir) : netdir.consensus[i].weight.val > 0

\* C9: a relay returned by pick_relay is usable (slot filled, identity
\* acceptable) and its final weight is strictly positive, for every
\* reweight function and every outcome of the random source. (Checked on
\* every NetDir pick_relay is called on.)
C9_PickedIsUsableAndWeighted ==
    last.op = "pick_relay" =>
        \A rw \in Reweight :
            \A picked \in pick_relay(netdir, rw) :
                \A i \in picked : i \in Usable(netdir) /\ FinalWeight(netdir, rw)[i] > 0

\* pick_relay has just returned a relay of an include-unmeasured NetDir
\* that also has a usable relay of weight 0, which is not the one returned.
C9_Witness ==
    /\ last.op = "pick_relay" /\ last.ok
    /\ netdir.weight_fn = "IncludeUnmeasured"
    /\ \E i \in Usable(netdir) : BaseWeight(netdir)[i] = 0 /\ i \notin last.relay

\* C10: no call adds or removes a slot key (the keys are the digests the
\* consensus lists), a filled slot stays filled, and the set of digests
\* yielded by missing_microdescs() never grows.
C10_SlotsOnlyFill ==
    [][/\ DOMAIN netdir'.mds = DOMAIN netdir.mds
       /\ DOMAIN netdir'.mds = Referenced(netdir')
       /\ Filled(netdir) \subseteq Filled(netdir')
       /\ Range(missing_microdescs(netdir')) \subseteq Range(missing_microdescs(netdir))]_vars

\* After promotion, add_microdesc has just filled the last empty slot.
C10_Witness ==
    /\ phase = "NetDir"
    /\ last.op = "add_microdesc" /\ last.ok
    /\ Len(netdir.consensus) = MaxRelays
    /\ Filled(netdir) = DOMAIN netdir.mds

\* C11: once unwrap_if_sufficient has returned the NetDir it stays a NetDir,
\* and no call on it changes its consensus, its slot contents or its weight
\* policy.
C11_Original ==
    [][phase = "NetDir" =>
          /\ phase' = "NetDir"
          /\ netdir'.consensus = netdir.consensus
          /\ netdir'.mds = netdir.mds
          /\ netdir'.weight_fn = netdir.weight_fn]_vars

\* C11 (amended): once unwrap_if_sufficient has returned the NetDir it
\* stays a NetDir and no call changes its consensus, its weight policy or
\* its set of slot keys; pick_relay changes nothing at all, while
\* add_microdesc, which NetDir offers through MDReceiver, may still write
\* the slot of the digest it is given and no other.
C11_PromotedNetDir ==
    [][phase = "NetDir" =>
          /\ phase' = "NetDir"
          /\ netdir'.consensus = netdir.consensus
          /\ netdir'.weight_fn = netdir.weight_fn
          /\ DOMAIN netdir'.mds = DOMAIN netdir.mds
          /\ last'.op # "add_microdesc" => netdir'.mds = netdir.mds
          /\ Cardinality({d \in DOMAIN netdir.mds : netdir'.mds[d] # netdir.mds[d]}) <= 1
          /\ Filled(netdir) \subseteq Filled(netdir')]_vars

\* add_microdesc has just been accepted by a promoted NetDir that still
\* misses a microdescriptor.
C11_Witness ==
    /\ phase = "NetDir"
    /\ last.op = "add_microdesc" /\ last.ok
    /\ Filled(netdir) # DOMAIN netdir.mds

\* The weight-policy rule: uniform when no listed relay declares a nonzero
\* weight, else include-unmeasured when no listed relay is measured, else
\* measured-only.
PolicyRule(nd) ==
    IF ~HasNonzero(nd) THEN "Uniform"
    ELSE IF ~HasMeasured(nd) THEN "IncludeUnmeasured"
    ELSE "MeasuredOnly"

\* C12: in every state reached by add_microdesc and unwrap_if_sufficient,
\* before and after promotion, the weight policy of the directory is the
\* one the weight-policy rule computes from its consensus, whichever
\* microdescriptors have arrived.
C12_WeightPolicyFixed ==
    netdir.weight_fn = PolicyRule(netdir)

\* add_microdesc has just filled a slot of a measured-only directory in
\* which no relay with a microdescriptor is measured.
C12_Witness ==
    /\ last.op = "add_microdesc" /\ last.ok
    /\ netdir.weight_fn = "MeasuredOnly"
    /\ \A i \in Listed(netdir) :
          netdir.consensus[i].md_digest \in Filled(netdir)
              => netdir.consensus[i].weight.tag = "Unmeasured"

\* The RetryDelay in use, its floor and its last delay.
Floor == retry.rd.low_bound_ms
LastDelay == retry.rd.last_delay_ms

\* The bounds the documentation gives for the next delay, in unbounded
\* integers.
LowBound(rd) == rd.low_bound_ms
HighBound(rd) == Max(rd.low_bound_ms + 1, Min(rd.last_delay_ms * 3, U32_MAX))

\* C13: for every RetryDelay state, delay_bounds() returns low = floor and
\* high = max(low + 1, min(last_delay * 3, u32::MAX)): the multiplication
\* saturates instead of wrapping, and low + 1 does not overflow because
\* the floor is at most u32::MAX - 1.
C13_DelayBounds ==
    /\ delay_bounds(retry.rd) = <<LowBound(retry.rd), HighBound(retry.rd)>>
    /\ Floor <= U32_MAX - 1
    /\ Floor + 1 = u32_add(Floor, 1)
    /\ from_msec(0).low_bound_ms = 1000 /\ from_msec(2000).low_bound_ms = 2000
    /\ delay_bounds(from_msec(1000)) = <<1000, 1001>>
    /\ delay_bounds([last_delay_ms |-> 1500, low_bound_ms |-> 1000]) = <<1000, 4500>>

\* next_delay has just returned a delay whose triple exceeds u32::MAX, so
\* the upper bound of the next delay is u32::MAX.
C13_Witness ==
    /\ retry.op = "next_delay"
    /\ LastDelay * 3 > U32_MAX
    /\ delay_bounds(retry.rd)[2] = U32_MAX

\* C14: every delay d returned by next_delay satisfies low <= d < high for
\* the bounds just before the call, is a whole number of milliseconds, is
\* stored as last_delay_ms, and the call leaves low_bound_ms alone.
C14_NextDelayInBounds ==
    [][retry'.op = "next_delay" =>
          \A d \in retry'.ret :
              /\ LowBound(retry.rd) <= d.ms /\ d.ms < HighBound(retry.rd)
              /\ d.sub = 0
              /\ retry'.rd.last_delay_ms = d.ms
              /\ retry'.rd.low_bound_ms = retry.rd.low_bound_ms]_vars

\* A later call of next_delay in a series has returned a delay above the
\* floor and above the previous delay's range.
C14_Witness ==
    /\ retry.op = "next_delay"
    /\ \E d \in retry.ret : d.ms > 3 * Floor

\* C15: from_msec(b) yields last delay 0 and floor min(max(b, 1000),
\* u32::MAX - 1); from_duration(d) equals from_msec of d's whole
\* milliseconds capped at u32::MAX - 1.
C15_Construction ==
    /\ \A b \in BaseDelayMsec :
           from_msec(b) = [last_delay_ms |-> 0,
                           low_bound_ms |-> Min(Max(b, 1000), U32_MAX - 1)]
    /\ \A d \in BaseDelay :
           from_duration(d) = from_msec(Min(d.ms, U32_MAX - 1))
    /\ retry.op \in {"from_msec", "from_duration"} =>
           \A d \in retry.arg :
               retry.rd = [last_delay_ms |-> 0,
                           low_bound_ms |-> Min(Max(d.ms, 1000), U32_MAX - 1)]

\* from_duration has just been given a duration of more than u32::MAX
\* milliseconds and has capped the floor.
C15_Witness ==
    /\ retry.op = "from_duration"
    /\ \E d \in retry.arg : d.ms > U32_MAX
    /\ Floor = U32_MAX - 1 /\ LastDelay = 0

\* C16: the retry scheduler cannot fail: in every reachable RetryDelay
\* state low < high, so the assertion of next_delay_msec holds and the
\* sampling range is not empty, and neither low + 1 nor the
\* multiplication leaves the u32 range.
C16_CannotFail ==
    /\ ~retry.panicked
    /\ delay_bounds(retry.rd)[1] < delay_bounds(retry.rd)[2]
    /\ gen_range(delay_bounds(retry.rd)[1], delay_bounds(retry.rd)[2]) # {}
    /\ \A r \in next_delay_msec(retry.rd) : ~r.panic
    /\ Floor + 1 <= U32_MAX
    /\ MIN_LOW_BOUND <= Floor /\ Floor <= MAX_LOW_BOUND
    /\ LastDelay \in 0..U32_MAX
    /\ delay_bounds(retry.rd)[2] \in 0..U32_MAX

\* next_delay has returned from a RetryDelay whose floor is the largest
\* one, u32::MAX - 1.
C16_Witness ==
    /\ retry.op = "next_delay"
    /\ Floor = U32_MAX - 1
    /\ retry.ret = {Duration_from_millis(U32_MAX - 1)}

Duration_ge(a, b) == a.ms > b.ms \/ (a.ms = b.ms /\ a.sub >= b.sub)

\* C18: every delay returned by next_delay on the schedule of a
\* RetryConfig with initial delay D is at least D, whatever D is (with a
\* fraction of a millisecond, or above u32::MAX - 1 milliseconds).
C18_AtLeastInitialDelay ==
    (retry.seed = "schedule" /\ retry.op = "next_delay") =>
        \A d \in retry.ret : Duration_ge(d, retry.cfg.initial_delay)

\* The keys a DocId carries: none for a consensus, its one key otherwise.
KeysOf(id) == IF id.kind = "LatestConsensus" THEN <<>> ELSE <<id.id>>

\* C19: DocQuery::push panics for every (batch kind, identity kind) pair
\* whose kinds differ and for no pair whose kinds match; so after any
\* sequence of pushes that did not abort, every member of the batch has the
\* batch's kind.
C19_PushPanicsIffMismatch ==
    /\ \A id \in DocId : push(docq.query, id).panic <=> docq.query.kind # id.kind
    /\ docq.op = "push" => (docq.panicked <=> docq.query.kind # docq.arg.kind)
    /\ \A i \in 1..Len(docq.query.ids) :
           /\ docq.query.kind \in KeyedKind
           /\ docq.query.ids[i].type = KeyType[docq.query.kind]

\* After pushes that did not abort, a push of an identity of another kind
\* has panicked.
C19_Witness ==
    /\ docq.op = "push" /\ docq.panicked
    /\ Len(docq.query.ids) >= 2

\* C20: empty_from_docid(id) is a batch of id's kind with no member (for a
\* consensus identity it carries id's flavor and cache usage), and
\* DocQuery::from(id) never aborts and is a batch of id's kind that holds
\* exactly the one key of id.
C20_EmptyAndSingleton ==
    /\ \A id \in DocId :
           /\ empty_from_docid(id) = DocQuery(id.kind, id.flavor, id.cache_usage, <<>>)
           /\ ~DocQuery_from(id).panic
           /\ DocQuery_from(id).query =
                  DocQuery(id.kind, id.flavor, id.cache_usage, KeysOf(id))
    /\ docq.op = "empty_from_docid" =>
           /\ docq.query.kind = docq.arg.kind /\ docq.query.ids = <<>>
           /\ docq.query.flavor = docq.arg.flavor
           /\ docq.query.cache_usage = docq.arg.cache_usage
    /\ docq.op = "from" =>
           /\ ~docq.panicked
           /\ docq.query.kind = docq.arg.kind /\ docq.query.ids = KeysOf(docq.arg)
           /\ docq.query.flavor = docq.arg.flavor
           /\ docq.query.cache_usage = docq.arg.cache_usage

\* DocQuery::from has just built the batch of one microdescriptor digest
\* in place of a longer batch.
C20_Witness ==
    /\ docq.op = "from" /\ docq.arg.kind = "Microdesc"
    /\ docq.query.ids = <<docq.arg.id>>

\* The relays whose slot is empty, and the k-th of a set of relays in
\* consensus order.
Unfilled(nd) == {i \in Listed(nd) : nd.consensus[i].md_digest \notin Filled(nd)}
Nth(S, k) == CHOOSE i \in S : Cardinality({j \in S : j < i}) = k - 1

\* C21: in every reachable state missing_microdescs() yields, in consensus
\* order, exactly the digests of the listed relays whose slot is empty (one
\* per such relay); a digest that add_microdesc has accepted is no longer
\* yielded, and the sequence is finite and depends on the state only.
C21_MissingInOrder ==
    LET m == missing_microdescs(netdir)
    IN  /\ Len(m) = Cardinality(Unfilled(netdir))
        /\ \A k \in 1..Len(m) : m[k] = netdir.consensus[Nth(Unfilled(netdir), k)].md_digest
        /\ \A md \in Microdesc :
               LET r == add_microdesc(netdir, md)
               IN  r.ret => md.digest \notin Range(missing_microdescs(r.netdir))

\* add_microdesc has just filled the slot of the first relay of a full-size
\* consensus, and a later relay is still missing its microdescriptor.
C21_Witness ==
    /\ last.op = "add_microdesc" /\ last.ok
    /\ Len(netdir.consensus) = MaxRelays
    /\ 1 \in Filled(netdir)
    /\ missing_microdescs(netdir) # <<>>

\* C22: the slot map has exactly one entry per relay listed in the
\* consensus, also when two listed relays reference the same digest.
C22_Original ==
    Cardinality(DOMAIN netdir.mds) = Len(netdir.consensus)

\* C22 (amended): the slot map has exactly one entry per distinct digest the
\* consensus lists: every listed relay finds its slot, there are at most as
\* many slots as relays, and exactly as many only when no two relays
\* reference the same digest.
C22_OneSlotPerDigest ==
    /\ DOMAIN netdir.mds = Referenced(netdir)
    /\ Cardinality(DOMAIN netdir.mds) <= Len(netdir.consensus)
    /\ Cardinality(DOMAIN netdir.mds) = Len(netdir.consensus)
           <=> \A i, j \in Listed(netdir) :
                   netdir.consensus[i].md_digest = netdir.consensus[j].md_digest => i = j

\* A directory has just been built from a consensus whose two relays
\* reference the same digest: it has one slot.
C22_Witness ==
    /\ last.op = "new"
    /\ Len(netdir.consensus) = 2
    /\ netdir.consensus[1].md_digest = netdir.consensus[2].md_digest
    /\ Cardinality(DOMAIN netdir.mds) = 1

\* C23: add_microdesc for a digest whose slot is already filled returns
\* true and stores the new descriptor in place of the old one, whatever the
\* old one was; the slot stays filled, the other slots are untouched and the
\* missing digests are the same.
C23_Overwrite ==
    \A md \in Microdesc :
        md.digest \in Filled(netdir) =>
            LET r == add_microdesc(netdir, md)
            IN  /\ r.ret
                /\ r.netdir.mds[md.digest].md = Some(md)
                /\ \A d \in DOMAIN netdir.mds \ {md.digest} : r.netdir.mds[d] = netdir.mds[d]
                /\ DOMAIN r.netdir.mds = DOMAIN netdir.mds
                /\ Filled(r.netdir) = Filled(netdir)
                /\ missing_microdescs(r.netdir) = missing_microdescs(netdir)

\* The slot of digest 1 holds one descriptor, and add_microdesc accepts a
\* descriptor of digest 1 with another body and stores it in its place.
C23_Witness ==
    /\ last.op = "add_microdesc" /\ last.ok
    /\ \E md \in Microdesc :
           /\ md.digest \in Filled(netdir)
           /\ netdir.mds[md.digest].md # Some(md)
           /\ add_microdesc(netdir, md).netdir.mds[md.digest].md = Some(md)

\* C24: all_relays() yields one entry per consensus record, in consensus
\* order, with the current content of its slot; relays() yields exactly the
\* entries whose slot is filled and whose ed25519 identity is acceptable, in
\* the same order; into_relay never unwraps an absent descriptor.
C24_RelaysAreUsableEntries ==
    LET a == all_relays(netdir)
        rl == relays(netdir)
    IN  /\ Len(a) = Len(netdir.consensus)
        /\ \A i \in 1..Len(a) :
               /\ a[i].rs = i
               /\ a[i].md = netdir.mds[netdir.consensus[i].md_digest].md
               /\ ~into_relay_panics(netdir, a[i])
               /\ into_relay(netdir, a[i]) = IF i \in Usable(netdir) THEN {i} ELSE {}
        /\ Len(rl) = Cardinality(Usable(netdir))
        /\ \A k \in 1..Len(rl) : rl[k] \in Usable(netdir)
        /\ \A k \in 2..Len(rl) : rl[k - 1] < rl[k]

\* A directory lists a usable relay after a relay with a descriptor and an
\* unacceptable identity: relays() yields the second and not the first.
C24_Witness ==
    /\ Len(netdir.consensus) >= 2
    /\ netdir.consensus[1].md_digest \in Filled(netdir)
    /\ ~netdir.consensus[1].ed25519_id_is_usable
    /\ relays(netdir) = <<2>>

\* C25: for every RetryConfig, attempts() yields exactly the finite
\* increasing sequence 0, 1, ..., n_attempts() - 1, and a call of
\* attempts() leaves the configuration as it was, so that every further call
\* yields the same sequence from 0 again.
C25_AttemptsSequence ==
    [][retry'.op = "attempts" =>
          LET a == attempts(retry'.cfg)
          IN  /\ retry'.cfg = retry.cfg
              /\ Len(a) = n_attempts(retry.cfg)
              /\ \A i \in 1..Len(a) : a[i] = i - 1]_vars

\* attempts() has been called on a configuration of three attempts after
\* delays were drawn from its schedule.
C25_Witness ==
    /\ retry.op = "attempts"
    /\ retry.calls >= 1
    /\ attempts(retry.cfg) = <<0, 1, 2>>

\* 3^k
RECURSIVE Pow3(_)
Pow3(k) == IF k = 0 THEN 1 ELSE 3 * Pow3(k - 1)

\* C28: the first next_delay call of a series returns exactly the floor,
\* every later call returns less than max(floor + 1, 3 * previous delay),
\* and the k-th delay of a series is below 3^(k-1) * floor whenever that
\* does not saturate.
C28_Original ==
    [][retry'.op = "next_delay" =>
          \A d \in retry'.ret :
              /\ retry.calls = 0 => d.ms = retry.rd.low_bound_ms
              /\ retry.calls >= 1 =>
                     d.ms < Max(retry.rd.low_bound_ms + 1, 3 * retry.rd.last_delay_ms)
              /\ (retry'.calls < MaxCalls
                     /\ Pow3(retry'.calls - 1) * retry.rd.low_bound_ms <= U32_MAX)
                   => d.ms < Pow3(retry'.calls - 1) * retry.rd.low_bound_ms]_vars

\* C28 (amended): the first next_delay call of a series returns exactly the
\* floor, every later call returns less than max(floor + 1, 3 * previous
\* delay), and the k-th delay of a series is at most 3^(k-1) * floor
\* whenever that does not saturate: equal to it for k = 1, below it for
\* k >= 2.
C28_DelayGrowth ==
    [][retry'.op = "next_delay" =>
          \A d \in retry'.ret :
              /\ retry.calls = 0 => d.ms = retry.rd.low_bound_ms
              /\ retry.calls >= 1 =>
                     d.ms < Max(retry.rd.low_bound_ms + 1, 3 * retry.rd.last_delay_ms)
              /\ (retry'.calls < MaxCalls
                     /\ Pow3(retry'.calls - 1) * retry.rd.low_bound_ms <= U32_MAX)
                   => /\ d.ms <= Pow3(retry'.calls - 1) * retry.rd.low_bound_ms
                      /\ retry'.calls >= 2
                           => d.ms < Pow3(retry'.calls - 1) * retry.rd.low_bound_ms]_vars

\* The third delay of a series is above three times the floor, and nine
\* times the floor does not saturate.
C28_Witness ==
    /\ retry.op = "next_delay" /\ retry.calls = 3
    /\ 9 * Floor <= U32_MAX
    /\ \E d \in retry.ret : d.ms > 3 * Floor

\* C29: after the pushes id1..idn of identities of the batch's kind onto
\* empty_from_docid(id1), a keyed batch holds exactly their n keys, in push
\* order, duplicates kept; a consensus batch is the one it was built as
\* after every push of a consensus identity, whatever the flavor and cache
\* usage of that identity, and such a push does not abort.
C29_PushOrder ==
    /\ docq.query.kind = docq.first.kind
    /\ \A i \in 1..Len(docq.pushed) : docq.pushed[i].kind = docq.query.kind
    /\ docq.query.kind \in KeyedKind =>
           /\ Len(docq.query.ids) = Len(docq.pushed)
           /\ \A i \in 1..Len(docq.pushed) : docq.query.ids[i] = docq.pushed[i].id
           /\ \A id \in DocId :
                  id.kind = docq.query.kind =>
                      /\ ~push(docq.query, id).panic
                      /\ push(docq.query, id).query.ids = docq.query.ids \o <<id.id>>
    /\ docq.query.kind = "LatestConsensus" =>
           /\ docq.query = DocQuery("LatestConsensus", docq.first.flavor,
                                    docq.first.cache_usage, <<>>)
           /\ \A id \in DocId :
                  id.kind = "LatestConsensus" =>
                      push(docq.query, id) = [query |-> docq.query, panic |-> FALSE]

\* Three identities have been pushed onto the empty batch of the first of
\* them, the third with the key of the first: the batch holds that key
\* twice.
C29_Witness ==
    /\ docq.op = "push" /\ ~docq.panicked
    /\ docq.query.kind \in KeyedKind
    /\ Len(docq.pushed) = 3
    /\ docq.pushed[1] = docq.first
    /\ docq.pushed[3] = docq.pushed[1] /\ docq.pushed[2] # docq.pushed[1]
    /\ docq.query.ids[3] = docq.query.ids[1]

ReadOnly == {"relays", "pick_relay", "missing_microdescs"}

C27_Proportional ==
    /\ last.op = "pick_relay" =>
           \A rw \in Reweight :
               LET c == pick_relay_count(netdir, rw)
                   n == Sum(c, DOMAIN c)
                   total == Sum(FinalWeight(netdir, rw), Usable(netdir))
               IN  total > 0 =>
                       /\ c[None] = 0
                       /\ \A i \in Usable(netdir) :
                              c[Some(i)] * total = FinalWeight(netdir, rw)[i] * n
    /\ LET c == pick_weighted_count(<<1, 2, 3>>, <<1, 2, 3>>)
           n == Sum(c, DOMAIN c)
       IN  /\ 6 * c[Some(1)] = 1 * n
           /\ 6 * c[Some(2)] = 2 * n
           /\ 6 * c[Some(3)] = 3 * n

\* pick_relay has returned a relay of a NetDir whose usable relays are the
\* first three listed, and ranked by position they have the final weights
\* 1, 2 and 3 and are drawn with probabilities 1/6, 2/6 and 3/6.
C27_Witness ==
    /\ last.op = "pick_relay" /\ last.ok
    /\ relays(netdir) = <<1, 2, 3>>
    /\ LET rw == [kind |-> "rank", drop |-> {}]
           c == pick_relay_count(netdir, rw)
       IN  /\ \A i \in 1..3 : FinalWeight(netdir, rw)[i] = i
           /\ \A i \in 1..3 : 6 * c[Some(i)] = i * Sum(c, DOMAIN c)

\* C30: sufficiency is monotone: where have_enough_paths holds, it holds
\* again after add_microdesc of any descriptor (wanted, unwanted or
\* overwriting), hence after any sequence of them.
C30_SufficiencyMonotone ==
    have_enough_paths(netdir) =>
        \A md \in Microdesc : have_enough_paths(add_microdesc(netdir, md).netdir)

\* A PartialNetDir that can be promoted has just been given a descriptor it
\* did not want.
C30_Witness ==
    /\ phase = "PartialNetDir"
    /\ have_enough_paths(netdir)
    /\ last.op = "add_microdesc" /\ ~last.ok

\* The reweight function that returns the base weight unchanged.
IdentityReweight == [kind |-> "same", drop |-> {}]

\* C31: every NetDir that a successful unwrap_if_sufficient has returned
\* (then and after any later call) has a usable relay of nonzero base weight,
\* and pick_relay with the identity reweight function returns a relay on it,
\* never None, for every outcome of the random source.
C31_PromotedHasPickableRelay ==
    phase = "NetDir" =>
        /\ \E i \in Usable(netdir) : BaseWeight(netdir)[i] > 0
        /\ None \notin pick_relay(netdir, IdentityReweight)
        /\ pick_relay(netdir, IdentityReweight) # {}

\* unwrap_if_sufficient has just succeeded on a directory that also lists a
\* relay that is not usable and a relay of base weight 0.
C31_Witness ==
    /\ phase = "NetDir"
    /\ last.op = "unwrap_if_sufficient" /\ last.ok
    /\ Usable(netdir) # Listed(netdir)
    /\ \E i \in Listed(netdir) : BaseWeight(netdir)[i] = 0

\* Every measured relay of the consensus c has weight 0 (and there is one)
\* while some unmeasured relay has nonzero weight.
MeasuredAllZero(c) ==
    /\ \E i \in 1..Len(c) : c[i].weight.tag = "Measured"
    /\ \A i \in 1..Len(c) : c[i].weight.tag = "Measured" => c[i].weight.val = 0
    /\ \E i \in 1..Len(c) : c[i].weight.tag = "Unmeasured" /\ c[i].weight.val > 0

\* C32: a view whose total policy weight is zero is never promoted, whatever
\* descriptors have been added: in every reachable state it is still a
\* PartialNetDir and unwrap_if_sufficient fails on it. The total is zero for
\* a consensus that lists no relays, and for a consensus whose measured
\* relays all have weight 0 while some unmeasured relay has nonzero weight
\* (the policy is measured-only and every base weight is 0).
C32_ZeroWeightNeverPromoted ==
    LET total == Sum(BaseWeight(netdir), Listed(netdir))
    IN  /\ total = 0 =>
               /\ phase = "PartialNetDir"
               /\ ~unwrap_if_sufficient(netdir).ok
        /\ netdir.consensus = <<>> => total = 0
        /\ MeasuredAllZero(netdir.consensus) =>
               /\ netdir.weight_fn = "MeasuredOnly"
               /\ \A i \in Listed(netdir) : BaseWeight(netdir)[i] = 0
               /\ total = 0

\* unwrap_if_sufficient has just failed on a view that has a descriptor for
\* every relay, all of them usable, because its measured relays have weight
\* 0 and only an unmeasured relay has nonzero weight.
C32_Witness ==
    /\ MeasuredAllZero(netdir.consensus)
    /\ Usable(netdir) = Listed(netdir)
    /\ last.op = "unwrap_if_sufficient" /\ ~last.ok

\* The distinct digests that missing_microdescs() yields.
MissingDigests == Range(missing_microdescs(netdir))

\* C33: bootstrap progress terminates. Every add_microdesc of a digest that
\* missing_microdescs() yields lowers the number of distinct missing digests
\* by one and fills one more slot, and no call of the bootstrap raises it; the
\* filled slots and the distinct missing digests together are the distinct
\* digests of the consensus, so there are at most that many such adds; and a
\* bootstrap that keeps adding a descriptor for some missing digest reaches
\* a state where missing_microdescs() is empty, and it stays empty.
C33_BootstrapTerminates ==
    /\ [][/\ Call_add_missing_microdesc =>
                /\ Cardinality(MissingDigests') = Cardinality(MissingDigests) - 1
                /\ Cardinality(Filled(netdir')) = Cardinality(Filled(netdir)) + 1
           /\ Cardinality(MissingDigests') <= Cardinality(MissingDigests)]_vars
    /\ [](Cardinality(Filled(netdir)) + Cardinality(MissingDigests)
              = Cardinality(Referenced(netdir)))
    /\ <>[](missing_microdescs(netdir) = <<>>)

\* The bootstrap has added a descriptor for each of the four digests of a
\* consensus, and the last add has emptied missing_microdescs().
C33_Witness ==
    /\ netdir.consensus = EqualWeightConsensus
    /\ last.op = "add_microdesc" /\ last.ok
    /\ Cardinality(Filled(netdir)) = 4
    /\ missing_microdescs(netdir) = <<>>

====
